---- MODULE Spec2Model ----
(***************************************************************************)
(* Manual clustering session of phy (phy/cluster/manual/session.py).      *)
(*                                                                         *)
(* The Session orchestrates four collaborators: Clustering (the spike ->   *)
(* cluster partition, merge/split), ClusterMetadata (per-cluster group),   *)
(* Selector (chosen clusters) and GlobalHistory (one linear undo stack).   *)
(* The Session's own methods are translated from session.py; the           *)
(* collaborators it imports (.clustering, ._history, .cluster_metadata,    *)
(* .selector) are modelled from their written specification.               *)
(*                                                                         *)
(* The module also holds the widget creator of phy/gui as its test         *)
(* (phy/gui/tests/test_base.py, test_widget_creator) drives it.            *)
(***************************************************************************)
EXTENDS Integers, Sequences, FiniteSets, TLC

VARIABLES
    spike_clusters,     \* clustering.spike_clusters: spike id -> cluster id
    cluster_labels,     \* clustering.cluster_labels: the live cluster ids
    next_id,            \* clustering's next-id allocator
    cluster_metadata,   \* ClusterMetadata entries: cluster id -> group
    history,            \* _global_history: the recorded revertible actions
    cursor,             \* _global_history: number of actions currently applied
    selected_clusters,  \* selector.selected_clusters
    up,                 \* the Update handed to _update_after_cluster / the views
    error,              \* exception raised by the last call, or "none"
    views,              \* _view_manager.views: how many views are registered
    notified,           \* views whose update() returned during the last call
    last_op,            \* name of the last Session method called
    n_actions,          \* successful merge/split/move calls so far (bounded)
    \* ---- observation variables (read by the properties only) ----
    before_action,      \* Core just before the last successful action
    committed,          \* Core and cursor just after the last successful action
    depth,              \* undo() calls not yet redone since the last action
    max_depth,          \* largest depth reached since the last action
    ever_ids,           \* every cluster id that was ever live
    loaded,             \* the spike -> cluster vector the session was loaded with
    prev_select,        \* the call before the last one was a successful select
    \* ---- the widget creator of phy/gui (test_widget_creator) ----
    wc,                 \* WidgetCreator: its widgets, widgets created, last error
    open_widgets        \* observation: ids of the widgets added and not closed

session_vars == <<spike_clusters, cluster_labels, next_id, cluster_metadata,
          history, cursor, selected_clusters, up, error, views, notified,
          last_op, n_actions, before_action, committed, depth, max_depth, ever_ids, loaded,
          prev_select>>

vars == <<session_vars, wc, open_widgets>>

----------------------------------------------------------------------------
(* Bounds and inputs *)

\* Number of successful mutating actions (merge, split, move) in one session.
MaxActions == 2

\* The same, in the sessions that also select or pass invalid arguments.
MaxCallActions == 1

\* Largest spike set handed to split().
MaxViews == 2
MaxViewActions == 1
MaxSplit == 2
MaxExtra == 1
MaxFold == 3
MaxWidgets == 3

Vec(s) == [i \in 0..(Len(s) - 1) |-> s[i + 1]]

\* Spike -> cluster vectors supplied by the model at load time.
InitialPartitions == { Vec(<<0, 0, 1, 1, 2>>), Vec(<<1, 0, 1>>) }

DefaultGroup == "unsorted"
Groups == {"good", "noise"}

Max(S) == CHOOSE m \in S : \A x \in S : x <= m

Image(sc) == { sc[i] : i \in DOMAIN sc }

SpikesIn(sc, clusters) == { i \in DOMAIN sc : sc[i] \in clusters }

Core == [spike_clusters |-> spike_clusters,
         cluster_labels |-> cluster_labels,
         cluster_metadata |-> cluster_metadata]

----------------------------------------------------------------------------
(* Update: the diff describing one mutation *)

Update(kind, added, removed, spikes) ==
    [kind |-> kind, added |-> added, removed |-> removed,
     affected_spikes |-> spikes]

NoMoreHistory == Update("NoMoreHistory", {}, {}, {})

----------------------------------------------------------------------------
(* Clustering *)

\* Validation of merge(clusterIds): "none" or the error raised.
MergeError(labels, clusters) ==
    IF Cardinality(clusters) < 2 THEN "InvalidOperation"
    ELSE IF ~(clusters \subseteq labels) THEN "UnknownCluster"
    ELSE "none"

\* Validation of split(spikeIds).
SplitError(sc, spikes) ==
    IF spikes = {} THEN "InvalidOperation"
    ELSE IF ~(spikes \subseteq DOMAIN sc) THEN "OutOfRange"
    ELSE "none"

\* Reassign `spikes` to cluster `to`.
Assign(sc, spikes, to) ==
    [i \in DOMAIN sc |-> IF i \in spikes THEN to ELSE sc[i]]

\* The clusters among `candidates` that hold no spike in `sc`.
Emptied(sc, candidates) ==
    { c \in candidates : \A i \in DOMAIN sc : sc[i] # c }

ClusteringAction(sc, spikes, new) ==
    [type |-> "cluster", old |-> [i \in spikes |-> sc[i]], new |-> new]

\* Clustering.merge on a validated argument.
ClusteringMerge(sc, labels, nid, clusters) ==
    LET spikes == SpikesIn(sc, clusters)
    IN  [spike_clusters |-> Assign(sc, spikes, nid),
         cluster_labels |-> (labels \ clusters) \cup {nid},
         next_id |-> nid + 1,
         up |-> Update("Cluster", {nid}, clusters, spikes),
         action |-> ClusteringAction(sc, spikes, nid)]

\* Clustering.split on a validated argument.
ClusteringSplit(sc, labels, nid, spikes) ==
    LET new_sc == Assign(sc, spikes, nid)
        gone == Emptied(new_sc, { sc[i] : i \in spikes })
    IN  [spike_clusters |-> new_sc,
         cluster_labels |-> (labels \ gone) \cup {nid},
         next_id |-> nid + 1,
         up |-> Update("Cluster", {nid}, gone, spikes),
         action |-> ClusteringAction(sc, spikes, nid)]

\* Variant: the reversal hands the retired id back to the allocator.
ClusteringUndo_reuse(sc, labels, nid, a) ==
    LET spikes == DOMAIN a.old
        back == { a.old[i] : i \in spikes }
    IN  [spike_clusters |->
             [i \in DOMAIN sc |-> IF i \in spikes THEN a.old[i] ELSE sc[i]],
         cluster_labels |-> (labels \ {a.new}) \cup back,
         next_id |-> a.new,
         up |-> Update("Cluster", back \ labels, {a.new}, spikes)]

\* Reversal of a ClusteringAction: every affected spike gets its prior id
\* back, the new id is retired, the old ids are live again.  The allocator
\* is left alone: a retired id is not handed out again.
ClusteringUndo(sc, labels, nid, a) ==
    LET spikes == DOMAIN a.old
        back == { a.old[i] : i \in spikes }
    IN  [spike_clusters |->
             [i \in DOMAIN sc |-> IF i \in spikes THEN a.old[i] ELSE sc[i]],
         cluster_labels |-> (labels \ {a.new}) \cup back,
         next_id |-> nid,
         up |-> Update("Cluster", back \ labels, {a.new}, spikes)]

\* Re-application of a ClusteringAction.
ClusteringRedo(sc, labels, nid, a) ==
    LET spikes == DOMAIN a.old
        new_sc == Assign(sc, spikes, a.new)
        gone == Emptied(new_sc, { a.old[i] : i \in spikes })
    IN  [spike_clusters |-> new_sc,
         cluster_labels |-> (labels \ gone) \cup {a.new},
         next_id |-> nid,
         up |-> Update("Cluster", {a.new}, gone, spikes)]

----------------------------------------------------------------------------
(* ClusterMetadata *)

\* get(clusterId, "group"): the stored value, or the default.
MetadataGet(md, c) == IF c \in DOMAIN md THEN md[c] ELSE DefaultGroup

\* The default colour of a cluster: a fixed function of its id.
DefaultColor(c) == <<"palette", c>>

\* cluster_metadata[cluster]: the cluster's fields; an entry that is absent
\* is created with the defaults, the lookup does not fail.
MetadataItem(md, c) == [group |-> MetadataGet(md, c), color |-> DefaultColor(c)]

\* Two stores that answer every get(c, "group") alike.
SameGroups(md1, md2) ==
    \A c \in (DOMAIN md1) \cup (DOMAIN md2) :
        MetadataGet(md1, c) = MetadataGet(md2, c)

\* Variant: one prior group is kept for the whole call.
MetadataAction_one_prior(md, clusters, value) ==
    [type |-> "meta",
     prior |-> [c \in clusters |->
                   MetadataGet(md, CHOOSE x \in clusters : TRUE)],
     value |-> value]

\* What set() records: the prior group of every cluster it touches.
MetadataAction(md, clusters, value) ==
    [type |-> "meta", prior |-> [c \in clusters |-> MetadataGet(md, c)],
     value |-> value]

\* set(clusterIds, "group", value): entries are created when absent.
MetadataSet(md, clusters, value) ==
    [c \in (DOMAIN md) \cup clusters |->
        IF c \in clusters THEN value ELSE md[c]]

MetadataUndo(md, a) ==
    [c \in (DOMAIN md) \cup (DOMAIN a.prior) |->
        IF c \in DOMAIN a.prior THEN a.prior[c] ELSE md[c]]

MetadataRedo(md, a) == MetadataSet(md, DOMAIN a.prior, a.value)

----------------------------------------------------------------------------
(* Selector *)

\* Variant: the session passes no cap of its own to the Selector.
n_spikes_max_unset == 2 * 100

\* Selector(spike_clusters, n_spikes_max=100)
n_spikes_max == 100

\* Variant: the Selector works on a copy of the vector taken at load time.
selector_loaded == loaded

\* The partition the Selector reads: the vector it was given at load time,
\* which is the one the Clustering keeps up to date.
selector_spike_clusters == spike_clusters

\* The spikes of `clusters`, in increasing order.
SpikesOf(sc, clusters) ==
    LET n == Cardinality(DOMAIN sc)
    IN  SelectSeq([k \in 1..n |-> k - 1], LAMBDA i : sc[i] \in clusters)

\* The fixed sampling rule: every step-th spike, from the first, cut to the
\* cap; all the spikes when they are no more than the cap.
Subsample(spikes, cap) ==
    LET n == Len(spikes)
        step == IF n \div cap < 1 THEN 1 ELSE n \div cap
        picked == [k \in 1..((n + step - 1) \div step) |->
                      spikes[(k - 1) * step + 1]]
    IN  SubSeq(picked, 1, IF Len(picked) < cap THEN Len(picked) ELSE cap)

\* Selector.selected_spikes
selected_spikes ==
    Subsample(SpikesOf(selector_spike_clusters, selected_clusters),
              n_spikes_max)

----------------------------------------------------------------------------
(* GlobalHistory *)

\* action(a): the redo tail is discarded, a is appended, the cursor is the
\* new length.
HistoryAction(h, cur, a) ==
    [history |-> Append(SubSeq(h, 1, cur), a), cursor |-> cur + 1]

\* Revert / re-apply one recorded action on the session's collaborators.
Revert(a, sc, labels, nid, md) ==
    IF a.type = "cluster"
    THEN LET r == ClusteringUndo(sc, labels, nid, a)
         IN  [spike_clusters |-> r.spike_clusters,
              cluster_labels |-> r.cluster_labels,
              next_id |-> r.next_id,
              cluster_metadata |-> md, up |-> r.up]
    ELSE [spike_clusters |-> sc, cluster_labels |-> labels, next_id |-> nid,
          cluster_metadata |-> MetadataUndo(md, a),
          up |-> Update("Metadata", {}, {}, {})]

Reapply(a, sc, labels, nid, md) ==
    IF a.type = "cluster"
    THEN LET r == ClusteringRedo(sc, labels, nid, a)
         IN  [spike_clusters |-> r.spike_clusters,
              cluster_labels |-> r.cluster_labels,
              next_id |-> r.next_id,
              cluster_metadata |-> md, up |-> r.up]
    ELSE [spike_clusters |-> sc, cluster_labels |-> labels, next_id |-> nid,
          cluster_metadata |-> MetadataRedo(md, a),
          up |-> Update("Metadata", {}, {}, {})]

\* undo(): NoMoreHistory at cursor 0, else the action at cursor-1 is reverted.
HistoryUndo(h, cur, sc, labels, nid, md) ==
    IF cur = 0
    THEN [spike_clusters |-> sc, cluster_labels |-> labels, next_id |-> nid,
          cluster_metadata |-> md, up |-> NoMoreHistory, cursor |-> cur]
    ELSE LET r == Revert(h[cur], sc, labels, nid, md)
         IN  [spike_clusters |-> r.spike_clusters,
              cluster_labels |-> r.cluster_labels,
              next_id |-> r.next_id,
              cluster_metadata |-> r.cluster_metadata,
              up |-> r.up, cursor |-> cur - 1]

\* redo(): NoMoreHistory at the tail, else the action at cursor is re-applied.
HistoryRedo(h, cur, sc, labels, nid, md) ==
    IF cur = Len(h)
    THEN [spike_clusters |-> sc, cluster_labels |-> labels, next_id |-> nid,
          cluster_metadata |-> md, up |-> NoMoreHistory, cursor |-> cur]
    ELSE LET r == Reapply(h[cur + 1], sc, labels, nid, md)
         IN  [spike_clusters |-> r.spike_clusters,
              cluster_labels |-> r.cluster_labels,
              next_id |-> r.next_id,
              cluster_metadata |-> r.cluster_metadata,
              up |-> r.up, cursor |-> cur + 1]

----------------------------------------------------------------------------
(* Session *)

\* An exception leaves the call: the statements after the raising one never
\* run.
Raise(e) ==
    /\ error' = e
    /\ notified' = 0
    /\ UNCHANGED <<spike_clusters, cluster_labels, next_id, cluster_metadata,
                   history, cursor, selected_clusters, up, views>>

\* The loop `for view in self._view_manager.views: view.update()`.  A view's
\* update() may raise: the views after it are not refreshed and the
\* exception leaves the call.
refresh_views ==
    \E failing \in 0..views :
        /\ notified' = IF failing = 0 THEN views ELSE failing - 1
        /\ error' = IF failing = 0 THEN "none" ELSE "ViewError"
        /\ views' = views

\* Session._update_after_select(up)
update_after_select == refresh_views

\* What action(self.clustering) records.  The code hands the history the
\* component itself; the history of the specification holds the revertible
\* action that component last performed.  For merge and split that is the
\* action the delegate just returned; here, the action at position i of the
\* history, or an action over no spike when there is none.
ItemAt(h, i) ==
    IF i \in 1..Len(h) THEN h[i]
    ELSE ClusteringAction(spike_clusters, {}, next_id)

\* Variant: the views are refreshed before the action is recorded.
update_after_cluster_views_first(u, add_to_stack, item, h, cur) ==
    /\ up' = u
    /\ refresh_views
    /\ IF add_to_stack /\ error' = "none"
       THEN LET r == HistoryAction(h, cur, item)
            IN  history' = r.history /\ cursor' = r.cursor
       ELSE history' = h /\ cursor' = cur

\* Session._update_after_cluster(up, add_to_stack): `item` is what
\* self._global_history.action(self.clustering) records, (h, cur) the history
\* as the caller's delegate left it; the views are then refreshed with `u`.
update_after_cluster(u, add_to_stack, item, h, cur) ==
    /\ IF add_to_stack
       THEN LET r == HistoryAction(h, cur, item)
            IN  history' = r.history /\ cursor' = r.cursor
       ELSE history' = h /\ cursor' = cur
    /\ up' = u
    /\ refresh_views

\* Variant: select goes through _update_after_cluster and is recorded.
select_recorded(clusters) ==
    IF ~(clusters \subseteq Image(selector_spike_clusters))
    THEN Raise("UnknownCluster")
    ELSE /\ selected_clusters' = clusters
         /\ update_after_cluster(up, TRUE, ItemAt(history, 0), history, cursor)
         /\ UNCHANGED <<spike_clusters, cluster_labels, next_id,
                        cluster_metadata>>

\* Session.select(clusters)
select(clusters) ==
    IF ~(clusters \subseteq Image(selector_spike_clusters))
    THEN Raise("UnknownCluster")
    ELSE /\ selected_clusters' = clusters
         /\ update_after_select
         /\ UNCHANGED <<spike_clusters, cluster_labels, next_id,
                        cluster_metadata, history, cursor, up>>

\* Variant: the history entry is written before clustering.merge validates.
merge_records_first(clusters) ==
    LET e == MergeError(cluster_labels, clusters)
        r == ClusteringMerge(spike_clusters, cluster_labels, next_id, clusters)
        h == HistoryAction(history, cursor, r.action)
    IN  IF e # "none"
        THEN /\ error' = e
             /\ notified' = 0
             /\ views' = views
             /\ history' = h.history
             /\ cursor' = h.cursor
             /\ UNCHANGED <<spike_clusters, cluster_labels, next_id,
                            cluster_metadata, selected_clusters, up>>
        ELSE /\ spike_clusters' = r.spike_clusters
             /\ cluster_labels' = r.cluster_labels
             /\ next_id' = r.next_id
             /\ update_after_cluster(r.up, TRUE, r.action, history, cursor)
             /\ UNCHANGED <<cluster_metadata, selected_clusters>>

\* Variant: merge delegates to clustering.split.
merge_as_split(clusters) ==
    LET e == SplitError(spike_clusters, clusters)
        r == ClusteringSplit(spike_clusters, cluster_labels, next_id, clusters)
    IN  IF e # "none"
        THEN Raise(e)
        ELSE /\ spike_clusters' = r.spike_clusters
             /\ cluster_labels' = r.cluster_labels
             /\ next_id' = r.next_id
             /\ update_after_cluster(r.up, TRUE, r.action, history, cursor)
             /\ UNCHANGED <<cluster_metadata, selected_clusters>>

\* Session.merge(clusters)
merge(clusters) ==
    LET e == MergeError(cluster_labels, clusters)
        r == ClusteringMerge(spike_clusters, cluster_labels, next_id, clusters)
    IN  IF e # "none"
        THEN Raise(e)
        ELSE /\ spike_clusters' = r.spike_clusters
             /\ cluster_labels' = r.cluster_labels
             /\ next_id' = r.next_id
             /\ update_after_cluster(r.up, TRUE, r.action, history, cursor)
             /\ UNCHANGED <<cluster_metadata, selected_clusters>>

\* Variant: split is applied but not pushed to the history.
split_unrecorded(spikes) ==
    LET e == SplitError(spike_clusters, spikes)
        r == ClusteringSplit(spike_clusters, cluster_labels, next_id, spikes)
    IN  IF e # "none"
        THEN Raise(e)
        ELSE /\ spike_clusters' = r.spike_clusters
             /\ cluster_labels' = r.cluster_labels
             /\ next_id' = r.next_id
             /\ update_after_cluster(r.up, FALSE, r.action, history, cursor)
             /\ UNCHANGED <<cluster_metadata, selected_clusters>>

\* Variant: split delegates to clustering.merge.
split_as_merge(spikes) == merge(spikes)

\* Session.split(spikes)
split(spikes) ==
    LET e == SplitError(spike_clusters, spikes)
        r == ClusteringSplit(spike_clusters, cluster_labels, next_id, spikes)
    IN  IF e # "none"
        THEN Raise(e)
        ELSE /\ spike_clusters' = r.spike_clusters
             /\ cluster_labels' = r.cluster_labels
             /\ next_id' = r.next_id
             /\ update_after_cluster(r.up, TRUE, r.action, history, cursor)
             /\ UNCHANGED <<cluster_metadata, selected_clusters>>

\* Variant: move records self.clustering instead of self.cluster_metadata.
move_records_clustering(clusters, group) ==
    LET r == HistoryAction(history, cursor, ItemAt(history, 0))
    IN  /\ cluster_metadata' = MetadataSet(cluster_metadata, clusters, group)
        /\ history' = r.history
        /\ cursor' = r.cursor
        /\ error' = "none"
        /\ notified' = 0
        /\ views' = views
        /\ UNCHANGED <<spike_clusters, cluster_labels, next_id,
                       selected_clusters, up>>

\* Variant: the group is set but the action is not pushed to the history.
move_unrecorded(clusters, group) ==
    /\ cluster_metadata' = MetadataSet(cluster_metadata, clusters, group)
    /\ error' = "none"
    /\ notified' = 0
    /\ views' = views
    /\ UNCHANGED <<spike_clusters, cluster_labels, next_id, history, cursor,
                   selected_clusters, up>>

\* Session.move(clusters, group): the views are not refreshed.
move(clusters, group) ==
    LET r == HistoryAction(history, cursor,
                           MetadataAction(cluster_metadata, clusters, group))
    IN  /\ cluster_metadata' = MetadataSet(cluster_metadata, clusters, group)
        /\ history' = r.history
        /\ cursor' = r.cursor
        /\ error' = "none"
        /\ notified' = 0
        /\ views' = views
        /\ UNCHANGED <<spike_clusters, cluster_labels, next_id,
                       selected_clusters, up>>

\* Variant: undo leaves add_to_stack at its default and pushes again.
undo_repush ==
    LET r == HistoryUndo(history, cursor, spike_clusters, cluster_labels,
                         next_id, cluster_metadata)
    IN  /\ spike_clusters' = r.spike_clusters
        /\ cluster_labels' = r.cluster_labels
        /\ next_id' = r.next_id
        /\ cluster_metadata' = r.cluster_metadata
        /\ update_after_cluster(r.up, TRUE, ItemAt(history, cursor),
                                history, r.cursor)
        /\ UNCHANGED selected_clusters

\* Variant: undo calls self._global_history.redo().
undo_as_redo ==
    LET r == HistoryRedo(history, cursor, spike_clusters, cluster_labels,
                         next_id, cluster_metadata)
    IN  /\ spike_clusters' = r.spike_clusters
        /\ cluster_labels' = r.cluster_labels
        /\ next_id' = r.next_id
        /\ cluster_metadata' = r.cluster_metadata
        /\ update_after_cluster(r.up, FALSE, ItemAt(history, cursor + 1),
                                history, r.cursor)
        /\ UNCHANGED selected_clusters

\* Variant: the colours are read from the stored entries only.
cluster_colors_stored ==
    [c \in cluster_labels |->
        IF c \in DOMAIN cluster_metadata
        THEN MetadataItem(cluster_metadata, c).color
        ELSE <<"KeyError", c>>]

\* Session.cluster_colors: the colour of every live cluster.
cluster_colors ==
    [c \in cluster_labels |-> MetadataItem(cluster_metadata, c).color]

\* Session.show_waveforms(): the new view is registered and filled by
\* _update_waveforms_after_load and _update_waveforms_after_select; update()
\* is not called.
show_waveforms ==
    /\ views' = views + 1
    /\ notified' = 0
    /\ error' = "none"
    /\ UNCHANGED <<spike_clusters, cluster_labels, next_id, cluster_metadata,
                   history, cursor, selected_clusters, up>>

\* Session.close_view(view), for a registered view.
close_view ==
    /\ views' = views - 1
    /\ notified' = 0
    /\ error' = "none"
    /\ UNCHANGED <<spike_clusters, cluster_labels, next_id, cluster_metadata,
                   history, cursor, selected_clusters, up>>

\* Session._update_after_load(), called after the model has loaded `vector`:
\* a new Selector and a new Clustering over the vector, the model's
\* ClusterMetadata (the object the session already pointed to), then every
\* view is refreshed.  self._global_history is assigned in __init__ only.
update_after_load(vector) ==
    /\ spike_clusters' = vector
    /\ cluster_labels' = Image(vector)
    /\ next_id' = Max(Image(vector)) + 1
    /\ selected_clusters' = {}
    /\ up' = Update("Load", Image(vector), {}, DOMAIN vector)
    /\ refresh_views
    /\ UNCHANGED <<cluster_metadata, history, cursor>>

\* Session.undo()
undo ==
    LET r == HistoryUndo(history, cursor, spike_clusters, cluster_labels,
                         next_id, cluster_metadata)
    IN  /\ spike_clusters' = r.spike_clusters
        /\ cluster_labels' = r.cluster_labels
        /\ next_id' = r.next_id
        /\ cluster_metadata' = r.cluster_metadata
        /\ update_after_cluster(r.up, FALSE, ItemAt(history, cursor),
                                history, r.cursor)
        /\ UNCHANGED selected_clusters

\* Variant: redo leaves add_to_stack at its default and pushes again.
redo_repush ==
    LET r == HistoryRedo(history, cursor, spike_clusters, cluster_labels,
                         next_id, cluster_metadata)
    IN  /\ spike_clusters' = r.spike_clusters
        /\ cluster_labels' = r.cluster_labels
        /\ next_id' = r.next_id
        /\ cluster_metadata' = r.cluster_metadata
        /\ update_after_cluster(r.up, TRUE, ItemAt(history, cursor + 1),
                                history, r.cursor)
        /\ UNCHANGED selected_clusters

\* Session.redo()
redo ==
    LET r == HistoryRedo(history, cursor, spike_clusters, cluster_labels,
                         next_id, cluster_metadata)
    IN  /\ spike_clusters' = r.spike_clusters
        /\ cluster_labels' = r.cluster_labels
        /\ next_id' = r.next_id
        /\ cluster_metadata' = r.cluster_metadata
        /\ update_after_cluster(r.up, FALSE, ItemAt(history, cursor + 1),
                                history, r.cursor)
        /\ UNCHANGED selected_clusters

----------------------------------------------------------------------------
(* The widget creator, as test_widget_creator uses it *)

\* widget_classes = {'my_widget': MyWidget}
widget_classes == {"my_widget"}

\* MyWidget(param): the mock widget, not shown at first.
MyWidget(id, param) ==
    [id |-> id, name |-> "my_widget", shown |-> FALSE, param |-> param]

\* MyWidget.show()
MyWidget_show(w) == [w EXCEPT !.shown = TRUE]

\* Variant: close() hides the widget without emitting 'close'.
MyWidget_close_silent(w) ==
    [widget |-> [w EXCEPT !.shown = FALSE], emitted |-> "none"]

\* MyWidget.close(): 'close' is emitted, then the widget is hidden.
MyWidget_close(w) ==
    [widget |-> [w EXCEPT !.shown = FALSE], emitted |-> "close"]

\* WidgetCreator(widget_classes=widget_classes)
WidgetCreator == [widgets |-> << >>, created |-> 0, error |-> "none"]

\* wc.get() and wc.get(name)
WcGet(c) == c.widgets
WcGetName(c, name) == SelectSeq(c.widgets, LAMBDA w : w.name = name)

\* wc.add(name, show=show, param=param): ValueError for a name that is not
\* in widget_classes; else the widget is created, shown if asked, and kept.
WcAdd(c, name, show, param) ==
    IF name \notin widget_classes
    THEN [c EXCEPT !.error = "ValueError"]
    ELSE LET w == MyWidget(c.created + 1, param)
         IN  [widgets |-> Append(c.widgets,
                                 IF show THEN MyWidget_show(w) ELSE w),
              created |-> c.created + 1,
              error |-> "none"]

\* The creator's reaction to the 'close' a widget emits: the widget is
\* dropped from its list.
WcOnClose(c, i) ==
    [c EXCEPT !.widgets = SubSeq(c.widgets, 1, i - 1)
                              \o SubSeq(c.widgets, i + 1, Len(c.widgets))]

\* wc.add('my_widget_bis') / w = wc.add('my_widget', show=show, param=show)
WidgetAdd ==
    \E name \in {"my_widget", "my_widget_bis"}, show \in BOOLEAN :
        /\ wc.created < MaxWidgets \/ name \notin widget_classes
        /\ wc' = WcAdd(wc, name, show, show)
        /\ open_widgets' = IF wc'.error = "none"
                           THEN open_widgets \cup {wc'.created}
                           ELSE open_widgets
        /\ UNCHANGED session_vars

\* w.show(), for a widget the creator holds
WidgetShow ==
    \E i \in 1..Len(wc.widgets) :
        /\ wc' = [wc EXCEPT !.widgets[i] = MyWidget_show(@),
                            !.error = "none"]
        /\ UNCHANGED <<open_widgets, session_vars>>

\* w.close(), for a widget the creator holds
WidgetClose ==
    \E i \in 1..Len(wc.widgets) :
        LET r == MyWidget_close(wc.widgets[i])
            c == [wc EXCEPT !.widgets[i] = r.widget, !.error = "none"]
        IN  /\ wc' = IF r.emitted = "close" THEN WcOnClose(c, i) ELSE c
            /\ open_widgets' = open_widgets \ {wc.widgets[i].id}
            /\ UNCHANGED session_vars

NextWidgets == WidgetAdd \/ WidgetShow \/ WidgetClose

----------------------------------------------------------------------------
(* Observation of a call: what the properties below read *)

Actions == {"merge", "split", "move"}

Observe(op) ==
    LET acted == op \in Actions /\ error' \in {"none", "ViewError"}
        undone == op = "undo" /\ up'.kind # "NoMoreHistory"
        redone == op = "redo" /\ up'.kind # "NoMoreHistory"
        d == IF acted THEN 0
             ELSE IF undone THEN depth + 1
             ELSE IF redone THEN depth - 1
             ELSE depth
    IN  /\ last_op' = op
        /\ n_actions' = IF acted THEN n_actions + 1 ELSE n_actions
        /\ before_action' = IF acted THEN Core ELSE before_action
        /\ committed' = IF acted THEN [core |-> Core', cursor |-> cursor']
                        ELSE committed
        /\ depth' = d
        /\ max_depth' = IF acted THEN 0
                        ELSE IF d > max_depth THEN d ELSE max_depth
        /\ ever_ids' = ever_ids \cup cluster_labels'
        /\ prev_select' = (last_op = "select" /\ error = "none")
        /\ UNCHANGED <<loaded, wc, open_widgets>>

----------------------------------------------------------------------------
(* The session as a state machine *)

\* Session.__init__: a fresh history, then _update_after_load.
InitFrom(vectors) ==
    /\ spike_clusters \in vectors
    /\ cluster_labels = Image(spike_clusters)
    /\ next_id = Max(Image(spike_clusters)) + 1
    /\ cluster_metadata = [c \in {} |-> DefaultGroup]
    /\ history = << >>
    /\ cursor = 0
    /\ selected_clusters = {}
    /\ up = Update("Load", Image(spike_clusters), {}, DOMAIN spike_clusters)
    /\ error = "none"
    /\ views = 0
    /\ notified = 0
    /\ last_op = "load"
    /\ n_actions = 0
    /\ before_action = Core
    /\ committed = [core |-> Core, cursor |-> 0]
    /\ depth = 0
    /\ max_depth = 0
    /\ ever_ids = Image(spike_clusters)
    /\ loaded = spike_clusters
    /\ prev_select = FALSE
    /\ wc = WidgetCreator
    /\ open_widgets = {}

Init == InitFrom(InitialPartitions)

\* Arguments of valid calls.  merge: any two or more live clusters; split: a
\* run of at most MaxSplit consecutive spikes; move: one live cluster or all
\* of them.
MergeArgs == { c \in SUBSET cluster_labels : Cardinality(c) >= 2 }
SplitArgs ==
    { p[1]..p[2] : p \in { q \in (DOMAIN spike_clusters) \X (DOMAIN spike_clusters) :
                               q[1] <= q[2] /\ q[2] - q[1] < MaxSplit } }
MoveArgs == { {c} : c \in cluster_labels } \cup {cluster_labels}

\* The bound `limit` is on the calls that act: a call with invalid arguments
\* may come at any time.
SessionMerge(limit, args) ==
    \E clusters \in args :
        /\ n_actions < limit \/ MergeError(cluster_labels, clusters) # "none"
        /\ merge(clusters)
        /\ Observe("merge")

SessionSplit(limit, args) ==
    \E spikes \in args :
        /\ n_actions < limit \/ SplitError(spike_clusters, spikes) # "none"
        /\ split(spikes)
        /\ Observe("split")

SessionMove(limit) ==
    /\ n_actions < limit
    /\ \E clusters \in MoveArgs, group \in Groups :
           move(clusters, group) /\ Observe("move")

SessionUndo == undo /\ Observe("undo")

SessionRedo == redo /\ Observe("redo")

\* Sessions of valid merge, split and move calls with undo and redo.
Next ==
    \/ SessionMerge(MaxActions, MergeArgs)
    \/ SessionSplit(MaxActions, SplitArgs)
    \/ SessionMove(MaxActions)
    \/ SessionUndo
    \/ SessionRedo

Spec == Init /\ [][Next]_vars

\* Arguments of any call: cluster ids live, retired or never allocated, spike
\* runs reaching outside [0, N), empty sets.
AnyClusterArgs ==
    { c \in SUBSET (0..next_id) : Cardinality(c) <= 2 } \cup {cluster_labels}
AnySplitArgs ==
    LET n == Cardinality(DOMAIN spike_clusters)
    IN  { p[1]..p[2] : p \in { q \in (-1..n) \X (-1..n) : q[2] - q[1] < MaxSplit } }
SelectArgs ==
    { c \in SUBSET (0..next_id) : Cardinality(c) <= 1 } \cup {cluster_labels}

\* Sessions in which merge and split are also called with invalid arguments.
NextInvalid ==
    \/ SessionMerge(MaxCallActions, AnyClusterArgs)
    \/ SessionSplit(MaxCallActions, AnySplitArgs)
    \/ SessionMove(MaxCallActions)
    \/ SessionUndo
    \/ SessionRedo

SpecInvalid == Init /\ [][NextInvalid]_vars

SessionSelect ==
    \E clusters \in SelectArgs : select(clusters) /\ Observe("select")

\* Sessions in which clusters are also selected.
NextSelect ==
    \/ SessionSelect
    \/ SessionMerge(MaxCallActions, MergeArgs)
    \/ SessionSplit(MaxCallActions, SplitArgs)
    \/ SessionMove(MaxCallActions)
    \/ SessionUndo
    \/ SessionRedo

SpecSelect == Init /\ [][NextSelect]_vars

\* Sessions in which clusters are selected while the partition changes.
NextSelectLive ==
    \/ SessionSelect
    \/ SessionMerge(MaxCallActions, MergeArgs)
    \/ SessionSplit(MaxCallActions, SplitArgs)
    \/ SessionUndo
    \/ SessionRedo

SpecSelectLive == Init /\ [][NextSelectLive]_vars

\* What the properties read after a load.
ObserveLoad ==
    /\ last_op' = "load"
    /\ before_action' = Core'
    /\ committed' = [core |-> Core', cursor |-> cursor']
    /\ depth' = 0
    /\ max_depth' = 0
    /\ ever_ids' = cluster_labels'
    /\ loaded' = spike_clusters'
    /\ prev_select' = FALSE
    /\ UNCHANGED <<n_actions, wc, open_widgets>>

SessionLoad ==
    \E vector \in InitialPartitions : update_after_load(vector) /\ ObserveLoad

SessionShowWaveforms ==
    /\ views < MaxViews
    /\ show_waveforms
    /\ Observe("show_waveforms")

SessionCloseView ==
    /\ views > 0
    /\ close_view
    /\ Observe("close_view")

\* Sessions with registered views, whose update() may raise, and in which
\* the model loads new data.
NextViews ==
    \/ SessionShowWaveforms
    \/ SessionCloseView
    \/ SessionLoad
    \/ SessionSelect
    \/ SessionMerge(MaxViewActions, MergeArgs)
    \/ SessionSplit(MaxViewActions, SplitArgs)
    \/ SessionMove(MaxViewActions)
    \/ SessionUndo
    \/ SessionRedo

SpecViews == Init /\ [][NextViews]_vars

\* Sessions with registered views whose update() may raise.
NextNotify ==
    \/ SessionShowWaveforms
    \/ SessionCloseView
    \/ SessionMerge(MaxViewActions, MergeArgs)
    \/ SessionSplit(MaxViewActions, SplitArgs)
    \/ SessionMove(MaxViewActions)
    \/ SessionUndo
    \/ SessionRedo

SpecNotify == Init /\ [][NextNotify]_vars

\* Vectors of about one, two, ... MaxFold times the cap, spread over one
\* to three clusters.
LargePartitions ==
    { [i \in 0..(fold * n_spikes_max + extra - 1) |-> i % k] :
          fold \in 1..MaxFold, extra \in (0 - MaxExtra)..MaxExtra, k \in 1..3 }

InitLarge == InitFrom(LargePartitions)

SessionSelectAny ==
    \E clusters \in SUBSET (0..next_id) :
        select(clusters) /\ Observe("select")

\* Selections over vectors longer than the Selector's cap.
NextSelector == SessionSelectAny

SpecSelector == InitLarge /\ [][NextSelector]_vars

\* The widget creator under any sequence of add, show and close.
SpecWidgets == Init /\ [][NextWidgets]_vars

----------------------------------------------------------------------------
(* Properties *)

\* C1. Partition well-formedness: after every step of merge, split, undo and
\* redo, every spike of [0, N) maps to one cluster id, and the live cluster
\* ids are exactly the image of the spike -> cluster function.
C1_PartitionWellFormed ==
    /\ DOMAIN spike_clusters = DOMAIN loaded
    /\ \A i \in DOMAIN spike_clusters : spike_clusters[i] \in cluster_labels
    /\ \A c \in cluster_labels :
           \E i \in DOMAIN spike_clusters : spike_clusters[i] = c

C1_Witness ==
    /\ last_op = "redo"
    /\ up.kind = "Cluster"
    /\ n_actions = 2
    /\ cluster_labels # Image(loaded)

\* C2. Exact reversal: a valid merge (or split) followed by undo() restores
\* the partition and the live cluster ids to their values before the
\* operation.
C2_ExactReversal ==
    [][ (last_op \in {"merge", "split"} /\ error = "none" /\ last_op' = "undo")
            => /\ spike_clusters' = before_action.spike_clusters
               /\ cluster_labels' = before_action.cluster_labels ]_vars

C2_Witness ==
    /\ last_op = "undo"
    /\ depth = 1
    /\ max_depth = 1
    /\ cursor < Len(history)
    /\ history[cursor + 1].type = "cluster"
    /\ spike_clusters # committed.core.spike_clusters

\* C3. History round trip: after k actions, k undo() calls followed by k
\* redo() calls reproduce the partition, live ids, metadata and cursor that
\* held after the k-th action (here: whenever every undo since the last
\* action has been redone).
C3_HistoryRoundTrip ==
    depth = 0 => (Core = committed.core /\ cursor = committed.cursor)

C3_Witness ==
    /\ last_op = "redo"
    /\ depth = 0
    /\ max_depth = 2
    /\ n_actions = 2
    /\ Len(history) = 2
    /\ { history[1].type, history[2].type } = {"cluster", "meta"}

\* C4. Redo-tail discard: a new merge, split or move made with the cursor
\* below the history length drops every action after the cursor, appends
\* the new one and leaves the cursor at the new length; a redo() from there
\* yields NoMoreHistory and re-applies nothing.
C4_RedoTailDiscard ==
    [][ /\ (last_op' \in Actions /\ n_actions' = n_actions + 1)
            => /\ Len(history') = cursor + 1
               /\ cursor' = Len(history')
               /\ SubSeq(history', 1, cursor) = SubSeq(history, 1, cursor)
        /\ (last_op' = "redo" /\ depth = 0)
            => /\ up' = NoMoreHistory
               /\ UNCHANGED <<spike_clusters, cluster_labels,
                              cluster_metadata, history, cursor>> ]_vars

C4_Witness ==
    /\ last_op = "redo"
    /\ up = NoMoreHistory
    /\ n_actions > Len(history)
    /\ depth = 0

\* C5. History bounds: undo() at cursor 0 and redo() at cursor = length
\* return NoMoreHistory without raising and change nothing; the cursor stays
\* within 0..length.
C5_HistoryBounds ==
    [][ /\ 0 <= cursor' /\ cursor' <= Len(history')
        /\ ((last_op' = "undo" /\ cursor = 0)
             \/ (last_op' = "redo" /\ cursor = Len(history)))
            => /\ up' = NoMoreHistory
               /\ error' = "none"
               /\ UNCHANGED <<spike_clusters, cluster_labels,
                              cluster_metadata, history, cursor>> ]_vars

C5_Witness ==
    /\ last_op = "undo"
    /\ up = NoMoreHistory
    /\ cursor = 0
    /\ Len(history) = 2

\* C6. Transactional failure: merge with fewer than 2 ids or a non-live id,
\* and split with no spike or a spike outside [0, N), raise and leave the
\* partition, live ids, allocator, metadata, history and cursor as they
\* were.
C6_TransactionalFailure ==
    [][ /\ \A clusters \in AnyClusterArgs :
               ( /\ Cardinality(clusters) < 2 \/ ~(clusters \subseteq cluster_labels)
                 /\ last_op' = "merge"
                 /\ merge(clusters) )
               => /\ error' \in
                        { e \in {"InvalidOperation"} : Cardinality(clusters) < 2 }
                        \cup { e \in {"UnknownCluster"} :
                                   ~(clusters \subseteq cluster_labels) }
                  /\ UNCHANGED <<spike_clusters, cluster_labels, next_id,
                                 cluster_metadata, history, cursor>>
        /\ \A spikes \in AnySplitArgs :
               ( /\ spikes = {} \/ ~(spikes \subseteq DOMAIN spike_clusters)
                 /\ last_op' = "split"
                 /\ split(spikes) )
               => /\ error' = IF spikes = {} THEN "InvalidOperation"
                              ELSE "OutOfRange"
                  /\ UNCHANGED <<spike_clusters, cluster_labels, next_id,
                                 cluster_metadata, history, cursor>> ]_vars

C6_Witness ==
    /\ last_op = "merge"
    /\ error = "UnknownCluster"
    /\ Len(history) = 1
    /\ cursor = 0

\* C7. Cluster ids are never reused: an id allocated by merge or split is
\* greater than every id that was ever live, retired ids included, and the
\* first allocated id is max(initial ids) + 1.
C7_IdsNeverReused ==
    [][ (last_op' \in {"merge", "split"} /\ n_actions' = n_actions + 1)
            => \E new \in up'.added :
                   /\ up'.added = {new}
                   /\ new \in cluster_labels'
                   /\ \A c \in ever_ids : new > c
                   /\ (ever_ids = Image(loaded))
                          => new = Max(Image(loaded)) + 1 ]_vars

C7_Witness ==
    /\ last_op \in {"merge", "split"}
    /\ n_actions = 2
    /\ Len(history) = 1
    /\ Cardinality(ever_ids \ Image(loaded)) = 2

\* C8. Merge effect: merge(clusterIds) moves every spike of clusterIds to one
\* new id, leaves the other spikes alone, removes clusterIds from the live
\* set, adds the new id, and reports Update{added={new}, removed=clusterIds,
\* affected_spikes, kind=Cluster}; [0,0,1,1,2] merged on {0,1} gives
\* [3,3,3,3,2] with live ids {2,3}.
C8_MergeEffect ==
    [][ /\ \A clusters \in MergeArgs :
               (last_op' = "merge" /\ merge(clusters))
               => \E new \in cluster_labels' \ ever_ids :
                      /\ DOMAIN spike_clusters' = DOMAIN spike_clusters
                      /\ \A i \in DOMAIN spike_clusters :
                             spike_clusters'[i] =
                                 IF spike_clusters[i] \in clusters THEN new
                                 ELSE spike_clusters[i]
                      /\ cluster_labels' = (cluster_labels \ clusters) \cup {new}
                      /\ up' = Update("Cluster", {new}, clusters,
                                      SpikesIn(spike_clusters, clusters))
        /\ ( /\ spike_clusters = Vec(<<0, 0, 1, 1, 2>>)
             /\ ever_ids = {0, 1, 2}
             /\ last_op' = "merge"
             /\ merge({0, 1}) )
            => /\ spike_clusters' = Vec(<<3, 3, 3, 3, 2>>)
               /\ cluster_labels' = {2, 3} ]_vars

C8_Witness ==
    /\ last_op = "merge"
    /\ spike_clusters = Vec(<<3, 3, 3, 3, 2>>)
    /\ cluster_labels = {2, 3}
    /\ up = Update("Cluster", {3}, {0, 1}, {0, 1, 2, 3})

\* C9. Split effect: split(spikeIds) moves exactly the given spikes to one
\* new id and leaves the others alone; a cluster stays live exactly when it
\* keeps a spike; [3,3,3,3,2] split on {0,1} gives [4,4,3,3,2] with live ids
\* {2,3,4}.
C9_SplitEffect ==
    [][ /\ \A spikes \in SplitArgs :
               (last_op' = "split" /\ split(spikes))
               => \E new \in cluster_labels' \ ever_ids :
                      /\ DOMAIN spike_clusters' = DOMAIN spike_clusters
                      /\ \A i \in DOMAIN spike_clusters :
                             spike_clusters'[i] =
                                 IF i \in spikes THEN new
                                 ELSE spike_clusters[i]
                      /\ cluster_labels' \subseteq cluster_labels \cup {new}
                      /\ \A c \in cluster_labels :
                             c \in cluster_labels' <=>
                                 \E i \in (DOMAIN spike_clusters) \ spikes :
                                     spike_clusters[i] = c
        /\ ( /\ spike_clusters = Vec(<<3, 3, 3, 3, 2>>)
             /\ ever_ids = {0, 1, 2, 3}
             /\ last_op' = "split"
             /\ split({0, 1}) )
            => /\ spike_clusters' = Vec(<<4, 4, 3, 3, 2>>)
               /\ cluster_labels' = {2, 3, 4} ]_vars

C9_Witness ==
    /\ last_op = "split"
    /\ spike_clusters = Vec(<<4, 4, 3, 3, 2>>)
    /\ cluster_labels = {2, 3, 4}
    /\ up = Update("Cluster", {4}, {}, {0, 1})

\* C10. Selection is read-only and not undoable: select() changes neither
\* partition, live ids, metadata, history nor cursor, and an undo() after a
\* select() reverts the last mutating action.
C10_SelectReadOnly ==
    [][ /\ last_op' = "select"
            => UNCHANGED <<spike_clusters, cluster_labels, cluster_metadata,
                           history, cursor>>
        /\ ( /\ last_op = "select"
             /\ last_op' = "undo"
             /\ depth = 0 /\ cursor > 0 )
            => /\ spike_clusters' = before_action.spike_clusters
               /\ cluster_labels' = before_action.cluster_labels
               /\ SameGroups(cluster_metadata', before_action.cluster_metadata)
               /\ cursor' = cursor - 1
               /\ selected_clusters' = selected_clusters ]_vars

C10_Witness ==
    /\ last_op = "undo"
    /\ prev_select
    /\ selected_clusters # {}
    /\ up.kind \in {"Cluster", "Metadata"}
    /\ depth = 1

\* C11. Undo and redo never append to or truncate the history: they leave
\* its entries as they are and move the cursor by one, or by zero at a bound.
\* The history changes only through a successful merge, split or move, which
\* adds exactly one entry right after the cursor.
C11_UndoRedoKeepHistory ==
    [][ /\ last_op' = "undo"
            => /\ history' = history
               /\ cursor' = IF cursor = 0 THEN 0 ELSE cursor - 1
        /\ last_op' = "redo"
            => /\ history' = history
               /\ cursor' = IF cursor = Len(history) THEN cursor ELSE cursor + 1
        /\ (history' # history \/ Len(history') # Len(history))
            => last_op' \in Actions /\ error' = "none"
        /\ (last_op' \in Actions /\ error' = "none")
            => /\ Len(history') = cursor + 1
               /\ cursor' = cursor + 1
               /\ SubSeq(history', 1, cursor) = SubSeq(history, 1, cursor) ]_vars

C11_Witness ==
    /\ last_op = "redo"
    /\ up.kind # "NoMoreHistory"
    /\ Len(history) = 2
    /\ cursor = 1
    /\ depth = 1

\* C12. Every operation notifies every observer: after each successful load,
\* select, merge, split, move, undo and redo every registered view has been
\* refreshed once; after a move, with an Update of kind "Metadata".
C12_ObserversNotified ==
    ( /\ last_op \in {"load", "select", "merge", "split", "move", "undo",
                      "redo"}
      /\ error = "none" )
        => /\ notified = views
           /\ (last_op = "move" /\ views > 0) => up.kind = "Metadata"

\* C13. Move is exactly reversible and touches only metadata: move sets the
\* group of every cluster it names and of no other, and leaves the partition
\* and the live ids as they are; an undo right after it gives every cluster
\* the group it had before the move (the default where it had no entry) and
\* leaves the partition alone.
C13_MoveReversible ==
    [][ /\ \A clusters \in MoveArgs, group \in Groups :
            (last_op' = "move" /\ move(clusters, group))
                => /\ \A c \in clusters :
                          MetadataGet(cluster_metadata', c) = group
                   /\ \A c \in (0..next_id) \ clusters :
                          MetadataGet(cluster_metadata', c)
                              = MetadataGet(cluster_metadata, c)
                   /\ UNCHANGED <<spike_clusters, cluster_labels, next_id>>
        /\ (last_op = "move" /\ last_op' = "undo")
            => /\ \A c \in 0..next_id :
                      MetadataGet(cluster_metadata', c)
                          = MetadataGet(before_action.cluster_metadata, c)
               /\ UNCHANGED <<spike_clusters, cluster_labels, next_id>> ]_vars

\* A move of several clusters whose prior groups differed, one of them
\* without a stored entry before the first move, has been undone.
C13_Witness ==
    /\ last_op = "undo"
    /\ cursor = 1
    /\ Len(history) = 2
    /\ history[1].type = "meta"
    /\ history[2].type = "meta"
    /\ \E a, b \in DOMAIN history[2].prior :
           /\ history[2].prior[a] # history[2].prior[b]
           /\ MetadataGet(cluster_metadata, a) = history[2].prior[a]
           /\ MetadataGet(cluster_metadata, b) = DefaultGroup
           /\ b \notin DOMAIN history[1].prior

\* C14. Metadata defaults cover every live cluster: an id newly produced by
\* merge or split (or brought back by redo) has group "unsorted"; the group
\* of a cluster changes only through a move naming it, or the undo or redo
\* of such a move; and the colour lookup over all live ids succeeds after
\* any sequence of merge, split, move, undo and redo.
C14_MetadataDefaults ==
    [][ /\ last_op' \in {"merge", "split", "redo"}
            => \A c \in up'.added :
                   /\ c \in cluster_labels'
                   /\ MetadataGet(cluster_metadata', c) = DefaultGroup
        /\ \A c \in 0..next_id' :
               MetadataGet(cluster_metadata', c) # MetadataGet(cluster_metadata, c)
                   => \/ /\ last_op' = "move"
                         /\ c \in DOMAIN history'[cursor'].prior
                      \/ /\ last_op' = "undo" /\ cursor > 0
                         /\ history[cursor].type = "meta"
                         /\ c \in DOMAIN history[cursor].prior
                      \/ /\ last_op' = "redo" /\ cursor < Len(history)
                         /\ history[cursor + 1].type = "meta"
                         /\ c \in DOMAIN history[cursor + 1].prior
        /\ \A c \in cluster_labels' : cluster_colors'[c] = DefaultColor(c) ]_vars

\* A split has produced an id after a move created entries for other ids:
\* the new id has no stored entry and is looked up with the defaults.
C14_Witness ==
    /\ last_op = "split"
    /\ DOMAIN cluster_metadata # {}
    /\ up.added # {}
    /\ \A c \in up.added :
           /\ c \in cluster_labels
           /\ c \notin DOMAIN cluster_metadata
           /\ MetadataItem(cluster_metadata, c)
                  = [group |-> "unsorted", color |-> DefaultColor(c)]

C17_LoadResets ==
    last_op = "load"
        => /\ spike_clusters = loaded
           /\ cluster_labels = Image(loaded)
           /\ selected_clusters = {}
           /\ history = << >>
           /\ cursor = 0
           /\ error = "none" => notified = views

C19_LinearHistory ==
    [][ /\ last_op' \in Actions
            => LET a == history'[cursor']
               IN  /\ a.type = IF last_op' = "move" THEN "meta" ELSE "cluster"
                   /\ a.type = "cluster"
                          => \A i \in DOMAIN spike_clusters :
                                 IF i \in DOMAIN a.old
                                 THEN /\ a.old[i] = spike_clusters[i]
                                      /\ spike_clusters'[i] = a.new
                                 ELSE spike_clusters'[i] = spike_clusters[i]
                   /\ a.type = "meta"
                          => \A c \in DOMAIN a.prior :
                                 /\ a.prior[c] = MetadataGet(cluster_metadata, c)
                                 /\ MetadataGet(cluster_metadata', c) = a.value
        /\ (last_op' = "undo" /\ cursor > 0)
            => LET a == history[cursor]
               IN  /\ cursor' = cursor - 1
                   /\ a.type = "meta"
                          => /\ UNCHANGED <<spike_clusters, cluster_labels>>
                             /\ \A c \in 0..next_id :
                                    MetadataGet(cluster_metadata', c)
                                        = IF c \in DOMAIN a.prior THEN a.prior[c]
                                          ELSE MetadataGet(cluster_metadata, c)
                   /\ a.type = "cluster"
                          => /\ SameGroups(cluster_metadata', cluster_metadata)
                             /\ \A i \in DOMAIN spike_clusters :
                                    spike_clusters'[i]
                                        = IF i \in DOMAIN a.old THEN a.old[i]
                                          ELSE spike_clusters[i]
        /\ (last_op' = "redo" /\ cursor < Len(history))
            => LET a == history[cursor + 1]
               IN  /\ cursor' = cursor + 1
                   /\ a.type = "meta"
                          => /\ UNCHANGED <<spike_clusters, cluster_labels>>
                             /\ \A c \in 0..next_id :
                                    MetadataGet(cluster_metadata', c)
                                        = IF c \in DOMAIN a.prior THEN a.value
                                          ELSE MetadataGet(cluster_metadata, c)
                   /\ a.type = "cluster"
                          => /\ SameGroups(cluster_metadata', cluster_metadata)
                             /\ \A i \in DOMAIN spike_clusters :
                                    spike_clusters'[i]
                                        = IF i \in DOMAIN a.old THEN a.new
                                          ELSE spike_clusters[i] ]_vars

\* A merge or split and a move were recorded, both were undone, and the
\* first of them has been re-applied.
C19_Witness ==
    /\ last_op = "redo"
    /\ Len(history) = 2
    /\ cursor = 1
    /\ max_depth = 2
    /\ history[1].type # history[2].type
    /\ up.kind = IF history[1].type = "meta" THEN "Metadata" ELSE "Cluster"

\* C20. Commit precedes notification: merge, split and move apply the
\* mutation and push its history entry before any view is refreshed.  When
\* a view fails during the refresh the mutation stays committed together
\* with its entry (the partition changed and the cursor advanced by one,
\* never one without the other), and a following undo reverts it.
C20_CommitBeforeNotify ==
    [][ /\ last_op' \in {"merge", "split"}
            => /\ error' \in {"none", "ViewError"}
               /\ spike_clusters' # spike_clusters
               /\ cursor' = cursor + 1
               /\ Len(history') = cursor'
               /\ history'[cursor'].type = "cluster"
               /\ error' = "ViewError" <=> notified' < views
        /\ last_op' = "move"
            => /\ error' = "none"
               /\ cursor' = cursor + 1
               /\ Len(history') = cursor'
               /\ history'[cursor'].type = "meta"
        /\ ( /\ last_op \in Actions
             /\ error = "ViewError"
             /\ last_op' = "undo" )
            => /\ spike_clusters' = before_action.spike_clusters
               /\ cluster_labels' = before_action.cluster_labels
               /\ SameGroups(cluster_metadata', before_action.cluster_metadata)
               /\ cursor' = cursor - 1
               /\ history' = history ]_vars

\* A merge or split was committed although the second of two views failed
\* while being refreshed.
C20_Witness ==
    /\ last_op \in {"merge", "split"}
    /\ error = "ViewError"
    /\ views = 2
    /\ notified = 1
    /\ cursor = 1
    /\ Len(history) = 1
    /\ spike_clusters # loaded
    /\ committed = [core |-> Core, cursor |-> 1]

====
